---- MODULE Spec2Model ----
(***************************************************************************)
(* Model of backend/main.py: provisioning of the detector weights, the     *)
(* process-wide model handle (startup_event, load_yolo_model) and the      *)
(* request handlers root, health and detect_fire.                          *)
(*                                                                         *)
(* Units.  A confidence is an integer number of millionths (250000 is      *)
(* 0.25); a rounded confidence is a number of ten-thousandths (2500 is     *)
(* 0.25).  A box coordinate is a number of thousandths of a pixel, a       *)
(* rounded one a number of hundredths.  Image sides are pixels.            *)
(* The resize arithmetic is IEEE-754 binary64, carried out on base-256     *)
(* digit sequences (most significant digit first).                         *)
(* inference_time_ms (a wall-clock reading) is not modelled.               *)
(***************************************************************************)
EXTENDS Integers, Sequences, FiniteSets, TLC

\* ------------------------------------------------------------------ bounds
\* Process starts (the first one and the restarts) that are explored.
MaxStartups == 2
\* Chunks iter_content yields for the whole remote artifact.
NumChunks == 2
\* Threads that call load_yolo_model (specification SpecLoad).
NumCallers == 2
\* Executions of YOLO(path) that are explored (specification SpecLoad).
MaxLoads == 3
\* Image sides 1..MaxSmallDim are explored next to the sampled sides.
MaxSmallDim == 2

\* ------------------------------------------------------- program constants
max_size == 640
max_det == 100
\* conf > 0.25, in millionths
ConfThreshold == 250000
\* significand width of a Python float
MantissaBits == 53

\* ---------------------------------------------------- binary64 arithmetic
\* Naturals too wide for a machine integer are digit sequences in base 256,
\* most significant digit first.
Front(d) == SubSeq(d, 1, Len(d) - 1)

RECURSIVE NatToDigits(_)
NatToDigits(n) ==
    IF n = 0 THEN <<>> ELSE Append(NatToDigits(n \div 256), n % 256)

RECURSIVE DigitsToNat(_)
DigitsToNat(d) ==
    IF d = <<>> THEN 0 ELSE 256 * DigitsToNat(Front(d)) + d[Len(d)]

RECURSIVE Strip(_)
Strip(d) == IF d # <<>> /\ d[1] = 0 THEN Strip(Tail(d)) ELSE d

RECURSIVE BitLen(_)
BitLen(n) == IF n = 0 THEN 0 ELSE 1 + BitLen(n \div 2)

\* Number of significant bits of a digit sequence without leading zeros.
DigitsBitLen(d) ==
    IF d = <<>> THEN 0 ELSE 8 * (Len(d) - 1) + BitLen(d[1])

RECURSIVE IncDigits(_)
IncDigits(d) ==
    IF d = <<>> THEN <<1>>
    ELSE IF d[Len(d)] < 255 THEN [d EXCEPT ![Len(d)] = @ + 1]
    ELSE Append(IncDigits(Front(d)), 0)

\* The exact product k * d + carry of a small natural and a digit sequence.
RECURSIVE MulDigits(_, _, _)
MulDigits(d, k, carry) ==
    IF d = <<>> THEN NatToDigits(carry)
    ELSE LET t == k * d[Len(d)] + carry
         IN  Append(MulDigits(Front(d), k, t \div 256), t % 256)

\* Quotient and remainder of a digit sequence by a small natural m.
RECURSIVE LongDiv(_, _)
LongDiv(d, m) ==
    IF d = <<>> THEN [q |-> <<>>, rem |-> 0]
    ELSE LET pre == LongDiv(Front(d), m)
             cur == 256 * pre.rem + d[Len(d)]
         IN  [q |-> Append(pre.q, cur \div m), rem |-> cur % m]

\* floor(d / 2^s)
RECURSIVE ShiftRight(_, _)
ShiftRight(d, s) ==
    IF s = 0 THEN d
    ELSE IF s >= 16 THEN ShiftRight(LongDiv(d, 65536).q, s - 16)
    ELSE LongDiv(d, 2 ^ s).q

\* Round to nearest, ties to even, to MantissaBits significant bits.
\* The result is [sig, drop]: the value is sig * 2^drop.
RoundToMantissa(p) ==
    LET d    == Strip(p)
        drop == DigitsBitLen(d) - MantissaBits
    IN  IF drop <= 0 THEN [sig |-> d, drop |-> 0]
        ELSE LET qr   == LongDiv(d, 2 ^ drop)
                 half == 2 ^ (drop - 1)
                 up   == qr.rem > half
                         \/ (qr.rem = half /\ qr.q[Len(qr.q)] % 2 = 1)
             IN  [sig |-> IF up THEN IncDigits(qr.q) ELSE qr.q, drop |-> drop]

\* Number of leading zero bits of the binary fraction of n / m (0 < n < m).
RECURSIVE LeadZeros(_, _)
LeadZeros(n, m) == IF 2 * n >= m THEN 0 ELSE 1 + LeadZeros(2 * n, m)

\* n / m for integers 0 < n < m < 2^16: the correctly rounded binary64
\* quotient, as [sig, exp] with value sig * 2^(-exp).
FloatDiv(n, m) ==
    LET e   == LeadZeros(n, m) + MantissaBits
        lo  == e % 8
        num == NatToDigits(n * 2 ^ lo) \o [i \in 1..(e \div 8) |-> 0]
        qr  == LongDiv(num, m)
        up  == 2 * qr.rem > m
               \/ (2 * qr.rem = m /\ qr.q[Len(qr.q)] % 2 = 1)
    IN  [sig |-> IF up THEN IncDigits(qr.q) ELSE qr.q, exp |-> e]

\* int(k * f): k converted exactly, the product rounded to binary64, then
\* truncated toward zero (f.exp exceeds the bits dropped by the rounding).
IntOfProduct(k, f) ==
    LET r == RoundToMantissa(MulDigits(f.sig, k, 0))
    IN  DigitsToNat(Strip(ShiftRight(r.sig, f.exp - r.drop)))

Max(a, b) == IF a >= b THEN a ELSE b

\* ------------------------------------------------------------ detect_fire
\* Lines 144-152 with the width test alone.
TargetSizeWidthOnly(w, h) ==
    IF w > max_size
    THEN LET scale == FloatDiv(max_size, Max(w, h))
         IN  [w |-> IntOfProduct(w, scale), h |-> IntOfProduct(h, scale),
              resized |-> TRUE]
    ELSE [w |-> w, h |-> h, resized |-> FALSE]

\* The size handed to cv2.resize, or the original size when no resize is
\* done; resized tells which.
TargetSize(w, h) ==
    IF w > max_size \/ h > max_size
    THEN LET scale == FloatDiv(max_size, Max(w, h))
         IN  [w |-> IntOfProduct(w, scale), h |-> IntOfProduct(h, scale),
              resized |-> TRUE]
    ELSE [w |-> w, h |-> h, resized |-> FALSE]

\* round(conf, 4): millionths to ten-thousandths, ties to even.
Round4(c) ==
    LET q == c \div 100
        r == c % 100
    IN  IF r > 50 \/ (r = 50 /\ q % 2 = 1) THEN q + 1 ELSE q

\* round(x, 2): thousandths to hundredths, ties to even.
Round2(x) ==
    LET q == x \div 10
        r == x % 10
    IN  IF r > 5 \/ (r = 5 /\ q % 2 = 1) THEN q + 1 ELSE q

\* result.names: class index to label.
names == [c \in {0, 1} |-> IF c = 0 THEN "fire" ELSE "smoke"]

\* The filter of line 176 left out.
KeepAll(conf) == TRUE

\* if conf > 0.25
Keep(conf) == conf > ConfThreshold

\* The detection appended for one box.
Detection(box) ==
    [label      |-> names[box.cls],
     confidence |-> Round4(box.conf),
     bbox       |-> [i \in 1..4 |-> Round2(box.xyxy[i])]]

\* The loop over result.boxes; every box has a known class here.
FormatDetections(boxes) ==
    LET kept == SelectSeq(boxes, LAMBDA b : Keep(b.conf))
    IN  [i \in 1..Len(kept) |-> Detection(kept[i])]

HTTPException(status, cause) ==
    [http |-> TRUE, status |-> status, cause |-> cause]

Exception(cause) == [http |-> FALSE, status |-> 0, cause |-> cause]

\* Every exception answered with 500.
HandleAll500(exc) == 500

\* The except clauses of detect_fire: the status the client gets.
HandleException(exc) == IF exc.http THEN exc.status ELSE 500

\* The test of line 122 left out.
ModelCheckOmitted(m) == FALSE

\* if model is None (0 stands for None)
ModelUnavailable(m) == m = 0

NoSize == [w |-> 0, h |-> 0]

NoUpload == [kind |-> "none", w |-> 0, h |-> 0]

\* A response.  seen, upload, boxes, target, invoked and cause record what
\* the handler read, computed and called; the rest is the payload.
NoResp ==
    [op |-> "none", status |-> 0, seen |-> 0, upload |-> NoUpload,
     invoked |-> FALSE, cause |-> "none", boxes |-> <<>>,
     detections |-> <<>>, num_detections |-> 0,
     original |-> NoSize, processed |-> NoSize, target |-> NoSize,
     model_loaded |-> FALSE]

Raised(base, exc) ==
    [base EXCEPT !.status = HandleException(exc), !.cause = exc.cause]

\* The body of detect_fire for the global model m, an upload and what the
\* model call does (inf.ok: it returns inf.boxes; otherwise it raises).
detect_fire(m, upload, inf) ==
    LET base == [NoResp EXCEPT !.op = "detect", !.seen = m, !.upload = upload]
    IN
    IF ModelUnavailable(m) THEN Raised(base, HTTPException(503, "model"))
    ELSE IF upload.kind = "raises" THEN Raised(base, Exception("decode"))
    ELSE IF upload.kind = "undecodable"
    THEN Raised(base, HTTPException(400, "image"))
    ELSE
    LET t    == TargetSize(upload.w, upload.h)
        size == [base EXCEPT !.original = [w |-> upload.w, h |-> upload.h],
                             !.target = [w |-> t.w, h |-> t.h]]
    IN
    IF t.resized /\ (t.w < 1 \/ t.h < 1)
    THEN Raised(size, Exception("resize"))
    ELSE IF m = 0 THEN Raised(size, Exception("call"))
    ELSE
    LET called == [size EXCEPT !.invoked = TRUE]
    IN
    IF ~inf.ok THEN Raised(called, Exception("infer"))
    ELSE IF \E i \in 1..Len(inf.boxes) : inf.boxes[i].cls \notin DOMAIN names
    THEN Raised([called EXCEPT !.boxes = inf.boxes], Exception("names"))
    ELSE
    LET detections == FormatDetections(inf.boxes)
    IN  [called EXCEPT !.status = 200,
                       !.boxes = inf.boxes,
                       !.detections = detections,
                       !.num_detections = Len(detections),
                       !.processed = [w |-> t.w, h |-> t.h]]

\* ------------------------------------------------------------------ inputs
\* Image sides: the small ones and sampled ones around and above max_size.
Dims == (1..MaxSmallDim) \cup {360, 537, 640, 641, 716, 1077, 1080, 1300, 1920}

\* Uploads by what cv2.imdecode does with them: it raises (an empty
\* buffer), returns None, or returns an image of some size.
Uploads ==
    {[kind |-> "raises", w |-> 0, h |-> 0],
     [kind |-> "undecodable", w |-> 0, h |-> 0]}
    \cup {[kind |-> "image", w |-> w, h |-> h] : w \in Dims, h \in Dims}

\* Confidences a box may carry, in millionths.
ConfSamples == <<100000, 250000, 250001, 250051, 876543, 999951>>

BoxCounts == {0, 1, 2, 3, max_det}

\* n boxes whose confidences cycle through ConfSamples from offset off;
\* with bad, the last box carries a class index result.names lacks.
Boxes(n, off, bad) ==
    [i \in 1..n |->
        [conf |-> ConfSamples[((i + off) % Len(ConfSamples)) + 1],
         cls  |-> IF bad /\ i = n THEN 2 ELSE i % 2,
         xyxy |-> <<1004 * i, 2006 * i, 1004 * i + 50502, 2006 * i + 60606>>]]

\* What the model call may do: raise, or return at most max_det boxes.
Inferences ==
    {[ok |-> FALSE, boxes |-> <<>>]}
    \cup {[ok |-> TRUE, boxes |-> Boxes(n, off, bad)] :
            n \in BoxCounts, off \in 0..(Len(ConfSamples) - 1), bad \in BOOLEAN}

\* ------------------------------------------------------------------- state
VARIABLES
    file,        \* what is stored at MODEL_PATH: "absent", "partial" (opened
                 \* for writing, transfer unfinished), "html", "weights"
    pc,          \* position of startup_event; "done" once it has returned
    model,       \* the global model: 0 for None, else the instance
    cache,       \* the lru_cache of load_yolo_model: 0 when empty
    loads,       \* executions of YOLO(path) started in this process
    err,         \* the step whose exception startup_event caught, or "none"
    http,        \* what requests.get gave in this process, or "none"
    downloaded,  \* chunks written
    warmed,      \* the warm-up call has returned
    startups,    \* process starts so far
    resp,        \* the response being sent, or NoResp
    callers      \* threads calling load_yolo_model (SpecLoad)

vars ==
    <<file, pc, model, cache, loads, err, http, downloaded, warmed, startups,
      resp, callers>>

Callers == 1..NumCallers

Idle == [pc |-> "idle", result |-> 0, hit |-> FALSE]

Init ==
    /\ file \in {"absent", "weights"}
    /\ pc = "start"
    /\ model = 0
    /\ cache = 0
    /\ loads = 0
    /\ err = "none"
    /\ http = "none"
    /\ downloaded = 0
    /\ warmed = FALSE
    /\ startups = 1
    /\ resp = NoResp
    /\ callers = [t \in Callers |-> Idle]

\* ----------------------------------------------------------- load_yolo_model
\* The cache consulted never answers.
LruNeverHit(c) == FALSE

\* lru_cache(maxsize=1), one path: a hit once a result is stored.
LruHit(c) == c # 0

\* What YOLO(path) can do with the file: only complete weights can load.
YoloOutcomes(f) == IF f = "weights" THEN {"ok", "raise"} ELSE {"raise"}

\* The cache after a call computed inst: a result stored meanwhile stays.
LruStore(c, inst) == IF c = 0 THEN inst ELSE c

\* ------------------------------------------------------------- startup_event
\* except Exception with the assignment of line 88 left out.
ExceptKeepsModel(tag) ==
    /\ pc' = "done"
    /\ err' = tag
    /\ UNCHANGED model

\* except Exception as e: model = None, and startup_event returns.
StartupExcept(tag) ==
    /\ model' = 0
    /\ pc' = "done"
    /\ err' = tag

\* if not os.path.exists(MODEL_PATH)
CheckExists ==
    /\ pc = "start"
    /\ pc' = IF file = "absent" THEN "get" ELSE "load"
    /\ UNCHANGED <<file, model, cache, loads, err, http, downloaded, warmed,
                   startups, resp, callers>>

\* requests.get and raise_for_status: the response is usable.
HttpGetOk ==
    /\ pc = "get"
    /\ \E ctype \in {"binary", "html"} : http' = ctype
    /\ pc' = "open"
    /\ UNCHANGED <<file, model, cache, loads, err, downloaded, warmed,
                   startups, resp, callers>>

\* requests.get raises, or raise_for_status does on a non-success status.
HttpGetFail ==
    /\ pc = "get"
    /\ \E o \in {"neterr", "badstatus"} :
          /\ http' = o
          /\ StartupExcept(IF o = "neterr" THEN "get" ELSE "status")
    /\ UNCHANGED <<file, cache, loads, downloaded, warmed, startups, resp,
                   callers>>

\* open(MODEL_PATH, "wb")
OpenFile ==
    /\ pc = "open"
    /\ file' = "partial"
    /\ downloaded' = 0
    /\ pc' = "transfer"
    /\ UNCHANGED <<model, cache, loads, err, http, warmed, startups, resp,
                   callers>>

\* One chunk from iter_content is written.
WriteChunk ==
    /\ pc = "transfer"
    /\ downloaded < NumChunks
    /\ downloaded' = downloaded + 1
    /\ UNCHANGED <<file, pc, model, cache, loads, err, http, warmed, startups,
                   resp, callers>>

\* iter_content raises before the last chunk: the with block closes the
\* file and the exception reaches the except clause.
TransferFail ==
    /\ pc = "transfer"
    /\ downloaded < NumChunks
    /\ StartupExcept("transfer")
    /\ UNCHANGED <<file, cache, loads, http, downloaded, warmed, startups,
                   resp, callers>>

\* iter_content is exhausted: the file holds what the server sent.
TransferDone ==
    /\ pc = "transfer"
    /\ downloaded = NumChunks
    /\ file' = IF http = "html" THEN "html" ELSE "weights"
    /\ pc' = "load"
    /\ UNCHANGED <<model, cache, loads, err, http, downloaded, warmed,
                   startups, resp, callers>>

\* model = load_yolo_model(MODEL_PATH), the call returns.
LoadOk ==
    /\ pc = "load"
    /\ IF LruHit(cache)
       THEN /\ model' = cache
            /\ UNCHANGED <<cache, loads>>
       ELSE /\ "ok" \in YoloOutcomes(file)
            /\ loads' = loads + 1
            /\ cache' = LruStore(cache, loads + 1)
            /\ model' = loads + 1
    /\ pc' = "warmup"
    /\ UNCHANGED <<file, err, http, downloaded, warmed, startups, resp,
                   callers>>

\* load_yolo_model raises: nothing is cached.
LoadFail ==
    /\ pc = "load"
    /\ ~LruHit(cache)
    /\ "raise" \in YoloOutcomes(file)
    /\ loads' = loads + 1
    /\ StartupExcept("load")
    /\ UNCHANGED <<file, cache, http, downloaded, warmed, startups, resp,
                   callers>>

\* model(dummy_img, verbose=False) returns.
WarmupOk ==
    /\ pc = "warmup"
    /\ warmed' = TRUE
    /\ pc' = "done"
    /\ UNCHANGED <<file, model, cache, loads, err, http, downloaded, startups,
                   resp, callers>>

\* model(dummy_img, verbose=False) raises.
WarmupFail ==
    /\ pc = "warmup"
    /\ StartupExcept("warmup")
    /\ UNCHANGED <<file, cache, loads, http, downloaded, warmed, startups,
                   resp, callers>>

\* The process ends and a new one starts: only the file system survives.
Restart ==
    /\ pc = "done"
    /\ startups < MaxStartups
    /\ startups' = startups + 1
    /\ pc' = "start"
    /\ model' = 0
    /\ cache' = 0
    /\ loads' = 0
    /\ err' = "none"
    /\ http' = "none"
    /\ downloaded' = 0
    /\ warmed' = FALSE
    /\ resp' = NoResp
    /\ UNCHANGED <<file, callers>>

\* ------------------------------------------------------------------ handlers
\* Handlers run while startup_event is suspended.
HandlerAnyTime == pc # "start"

\* startup_event has no await: on the event loop no handler runs before it
\* has returned.
HandlerReady == pc = "done"

Root ==
    /\ HandlerReady
    /\ resp = NoResp
    /\ resp' = [NoResp EXCEPT !.op = "root", !.status = 200]
    /\ UNCHANGED <<file, pc, model, cache, loads, err, http, downloaded,
                   warmed, startups, callers>>

Health ==
    /\ HandlerReady
    /\ resp = NoResp
    /\ resp' = [NoResp EXCEPT !.op = "health", !.status = 200, !.seen = model,
                              !.model_loaded = (model # 0)]
    /\ UNCHANGED <<file, pc, model, cache, loads, err, http, downloaded,
                   warmed, startups, callers>>

DetectFire ==
    /\ HandlerReady
    /\ resp = NoResp
    /\ \E upload \in Uploads, inf \in Inferences :
          resp' = detect_fire(model, upload, inf)
    /\ UNCHANGED <<file, pc, model, cache, loads, err, http, downloaded,
                   warmed, startups, callers>>

\* The response leaves the process.
Reply ==
    /\ resp # NoResp
    /\ resp' = NoResp
    /\ UNCHANGED <<file, pc, model, cache, loads, err, http, downloaded,
                   warmed, startups, callers>>

Next ==
    \/ CheckExists
    \/ HttpGetOk
    \/ HttpGetFail
    \/ OpenFile
    \/ WriteChunk
    \/ TransferFail
    \/ TransferDone
    \/ LoadOk
    \/ LoadFail
    \/ WarmupOk
    \/ WarmupFail
    \/ Restart
    \/ Root
    \/ Health
    \/ DetectFire
    \/ Reply

Spec == Init /\ [][Next]_vars

\* ------------------------------------------- load_yolo_model, many callers
\* The weights are in place; the threads have not called yet.
InitLoad ==
    /\ file = "weights"
    /\ pc = "start"
    /\ model = 0
    /\ cache = 0
    /\ loads = 0
    /\ err = "none"
    /\ http = "none"
    /\ downloaded = 0
    /\ warmed = FALSE
    /\ startups = 1
    /\ resp = NoResp
    /\ callers = [t \in Callers |-> Idle]

\* A thread calls load_yolo_model and finds the result cached.
CallHit(t) ==
    /\ callers[t].pc = "idle"
    /\ LruHit(cache)
    /\ callers' = [callers EXCEPT ![t] =
                      [pc |-> "returned", result |-> cache, hit |-> TRUE]]
    /\ UNCHANGED <<file, pc, model, cache, loads, err, http, downloaded,
                   warmed, startups, resp>>

\* A thread calls load_yolo_model, misses and enters YOLO(path).
CallMiss(t) ==
    /\ callers[t].pc = "idle"
    /\ ~LruHit(cache)
    /\ loads < MaxLoads
    /\ loads' = loads + 1
    /\ callers' = [callers EXCEPT ![t] =
                      [pc |-> "loading", result |-> loads + 1, hit |-> FALSE]]
    /\ UNCHANGED <<file, pc, model, cache, err, http, downloaded, warmed,
                   startups, resp>>

\* YOLO(path) returns the instance this call built; it is cached unless
\* another call stored its own meanwhile.
LoadReturns(t) ==
    /\ callers[t].pc = "loading"
    /\ "ok" \in YoloOutcomes(file)
    /\ cache' = LruStore(cache, callers[t].result)
    /\ callers' = [callers EXCEPT ![t].pc = "returned"]
    /\ UNCHANGED <<file, pc, model, loads, err, http, downloaded, warmed,
                   startups, resp>>

\* YOLO(path) raises: the caller gets the exception, nothing is cached.
LoadRaises(t) ==
    /\ callers[t].pc = "loading"
    /\ "raise" \in YoloOutcomes(file)
    /\ callers' = [callers EXCEPT ![t] =
                      [pc |-> "raised", result |-> 0, hit |-> FALSE]]
    /\ UNCHANGED <<file, pc, model, cache, loads, err, http, downloaded,
                   warmed, startups, resp>>

\* The caller is done with the result and may call again.
CallAgain(t) ==
    /\ callers[t].pc \in {"returned", "raised"}
    /\ callers' = [callers EXCEPT ![t] = Idle]
    /\ UNCHANGED <<file, pc, model, cache, loads, err, http, downloaded,
                   warmed, startups, resp>>

NextLoad ==
    \E t \in Callers :
        \/ CallHit(t)
        \/ CallMiss(t)
        \/ LoadReturns(t)
        \/ LoadRaises(t)
        \/ CallAgain(t)

SpecLoad == InitLoad /\ [][NextLoad]_vars

\* ------------------------------------------------------------------ claims
Min(a, b) == IF a <= b THEN a ELSE b

\* A detect_fire response whose handler got past the availability test
\* with an upload that decoded to an image.
DecodedImage ==
    resp.op = "detect" /\ resp.seen # 0 /\ resp.upload.kind = "image"

\* C1: whenever the global model is None, detect_fire answers 503 and does
\* not call the model, whatever was uploaded and whatever came before.
C1_UnavailableGives503 ==
    (resp.op = "detect" /\ resp.seen = 0)
        => (resp.status = 503 /\ ~resp.invoked)

C1_Witness ==
    /\ resp.op = "detect"
    /\ resp.seen = 0
    /\ resp.status = 503
    /\ resp.upload.kind = "image"
    /\ err # "none"

\* C2 as stated: in a successful response every reported confidence is
\* strictly greater than 0.25, the list has at most max_det entries and
\* num_detections is its length.
C2_ReportedAboveThreshold ==
    (resp.op = "detect" /\ resp.status = 200)
        => /\ \A i \in 1..Len(resp.detections) :
                 resp.detections[i].confidence * 100 > ConfThreshold
           /\ Len(resp.detections) <= max_det
           /\ resp.num_detections = Len(resp.detections)

\* C2 amended: a successful response lists exactly the boxes whose raw
\* confidence is strictly greater than 0.25; the confidence reported for
\* each, rounded to 4 decimals, is at least 0.25; the list has at most
\* max_det entries and num_detections is its length.
C2_RawAboveThreshold ==
    (resp.op = "detect" /\ resp.status = 200)
        => /\ Len(resp.detections) =
                 Cardinality({i \in 1..Len(resp.boxes) :
                                 resp.boxes[i].conf > ConfThreshold})
           /\ \A i \in 1..Len(resp.detections) :
                 resp.detections[i].confidence * 100 >= ConfThreshold
           /\ Len(resp.detections) <= max_det
           /\ resp.num_detections = Len(resp.detections)

C2_Witness ==
    /\ resp.op = "detect"
    /\ resp.status = 200
    /\ Len(resp.boxes) = max_det
    /\ Len(resp.detections) < Len(resp.boxes)
    /\ \E i \in 1..Len(resp.detections) :
          resp.detections[i].confidence * 100 = ConfThreshold

\* C3: when the transfer fails after MODEL_PATH was opened for writing,
\* the partial file is gone by the time startup_event returns.
C3_PartialFileDeleted ==
    (pc = "done" /\ err = "transfer") => file = "absent"

C5_UsableOnlyWarmedUp ==
    /\ (resp.op \in {"health", "detect"} /\ resp.seen # 0) => warmed
    /\ (pc = "done" /\ model # 0) => warmed
    /\ (pc = "done" /\ err = "warmup") => model = 0

C5_Witness ==
    /\ resp.op = "health"
    /\ resp.model_loaded
    /\ warmed
    /\ http = "binary"

\* C6: after a startup step has failed, startup_event has returned with the
\* model None, and in this process it stays None: nothing is downloaded or
\* loaded again, health reports model_loaded false, detect_fire answers
\* 503 and root can answer.
C6_FailedStartupStaysUnavailable ==
    [][(pc = "done" /\ err # "none") =>
          /\ model = 0
          /\ resp = NoResp => ENABLED Root
          /\ pc' = "done" =>
                /\ model' = 0
                /\ loads' = loads
                /\ http' = http
                /\ downloaded' = downloaded
                /\ file' = file
                /\ resp'.op = "health" => ~resp'.model_loaded
                /\ resp'.op = "detect" => resp'.status = 503]_vars

C6_Witness ==
    /\ pc = "done"
    /\ err = "warmup"
    /\ resp.op = "health"
    /\ ~resp.model_loaded

\* C7: with no file at MODEL_PATH, a non-success status, a network
\* exception or an HTML response each end provisioning without any load
\* of downloaded bytes and with the model None; the model is available
\* only when none of the three happened.
C7_DownloadFailureCases ==
    (pc = "done" /\ http # "none")
        => /\ (http \in {"neterr", "badstatus", "html"} \/ err = "transfer")
                 => (loads = 0 /\ model = 0)
           /\ model # 0 => (http = "binary" /\ err = "none")

\* C8: with the model available, an upload that decodes to None is
\* answered 400, without calling the model.
C8_UndecodableGives400 ==
    (resp.op = "detect" /\ resp.seen # 0 /\ resp.upload.kind = "undecodable")
        => /\ resp.status = 400
           /\ ~resp.invoked
           /\ resp.detections = <<>>

C8_Witness ==
    /\ resp.op = "detect"
    /\ resp.seen # 0
    /\ resp.upload.kind = "undecodable"
    /\ resp.status = 400

\* C9 as stated: an image within max_size is passed on unchanged; a larger
\* one gets a longer side of exactly max_size and a shorter side of
\* floor(shorter * max_size / longer), both at most max_size.
C9_LongerSideExact ==
    (DecodedImage /\ resp.status = 200)
        => LET w == resp.original.w
               h == resp.original.h
               m == Max(w, h)
           IN  IF m <= max_size
               THEN resp.processed = [w |-> w, h |-> h]
               ELSE /\ Max(resp.processed.w, resp.processed.h) = max_size
                    /\ Min(resp.processed.w, resp.processed.h)
                          = (Min(w, h) * max_size) \div m

\* floor(side * max_size / m), or one less when the quotient is exact.
NearFloor(t, side, m) ==
    \/ t = (side * max_size) \div m
    \/ /\ (side * max_size) % m = 0
       /\ t = (side * max_size) \div m - 1

\* C9 amended: an image within max_size is passed on unchanged; for a
\* larger one each side computed for the resize is
\* floor(side * max_size / longer), or one less when that quotient is an
\* exact integer, so both are at most max_size; a successful response
\* reports the computed size as the processed size.
C9_SidesNearFloor ==
    DecodedImage
        => LET w == resp.upload.w
               h == resp.upload.h
               m == Max(w, h)
           IN  /\ resp.original = [w |-> w, h |-> h]
               /\ IF m <= max_size
                  THEN resp.target = [w |-> w, h |-> h]
                  ELSE /\ NearFloor(resp.target.w, w, m)
                       /\ NearFloor(resp.target.h, h, m)
                       /\ resp.target.w <= max_size
                       /\ resp.target.h <= max_size
               /\ resp.status = 200 => resp.processed = resp.target

C9_Witness ==
    /\ DecodedImage
    /\ resp.status = 200
    /\ resp.original = [w |-> 1077, h |-> 716]
    /\ resp.processed = [w |-> 639, h |-> 425]

\* C10: for every decoded image both sides computed for the resize are at
\* least 1 and the request does not end in 500 because of the resize.
C10_TargetAtLeastOne ==
    DecodedImage
        => /\ resp.target.w >= 1
           /\ resp.target.h >= 1
           /\ ~(resp.status = 500 /\ resp.cause = "resize")

====
